---- MODULE Spec2Model ----
(***************************************************************************)
(* Build-time rule compilation (fetchRules, updateEdgeFile) and the        *)
(* request matcher of the generated edge handler.                          *)
(*                                                                         *)
(* Strings are sequences of one-character strings, so that startsWith,     *)
(* replace and the regular expression built by matchPattern are computed   *)
(* character by character.  A CMS entry is a record whose DOMAIN holds     *)
(* exactly the fields the entry carries.  A rule built by fetchRules holds  *)
(* Undefined in from/to when the entry lacks the field; JSON.stringify      *)
(* drops such a property, so the embedded rule lacks it.  One handler       *)
(* invocation is modelled per behaviour: invocations share no state.        *)
(*                                                                         *)
(* Spec is one build followed by one invocation.  SpecBuild is the build   *)
(* script alone, started with and without a directory and an earlier file. *)
(* SpecMatch, SpecHeaders, SpecEntries and SpecAlias apply the matcher,    *)
(* the header normalizer, fetchEntries and the map callbacks of fetchRules *)
(* to inputs drawn from bounded sets.                                      *)
(***************************************************************************)
EXTENDS Integers, Sequences, FiniteSets, TLC

(***************************************************************************)
(* Bounds                                                                  *)
(***************************************************************************)
MaxRules == 2
MaxLen == 3
MaxPairs == 2

(***************************************************************************)
(* Strings                                                                 *)
(***************************************************************************)
Undefined == <<"undefined">>

UndefinedStr == <<"u", "n", "d", "e", "f", "i", "n", "e", "d">>

\* String(v): the string a value becomes when it is concatenated to a string
ToStr(v) == IF v = Undefined THEN UndefinedStr ELSE v

StartsWith(s, p) == Len(p) <= Len(s) /\ SubSeq(s, 1, Len(p)) = p

Includes(s, c) == \E i \in 1..Len(s) : s[i] = c

RECURSIVE ReplaceAll(_, _, _)
ReplaceAll(s, c, r) ==
  IF s = <<>> THEN <<>>
  ELSE (IF Head(s) = c THEN r ELSE <<Head(s)>>) \o ReplaceAll(Tail(s), c, r)

\* Prop(o, f): o.f, undefined when the property is absent
Prop(o, f) == IF f \in DOMAIN o THEN o[f] ELSE Undefined

RECURSIVE StrsOfLen(_, _)
StrsOfLen(chars, n) ==
  IF n = 0 THEN {<<>>}
  ELSE {<<c>> \o s : c \in chars, s \in StrsOfLen(chars, n - 1)}

StrsUpTo(chars, n) == UNION {StrsOfLen(chars, k) : k \in 0..n}

(***************************************************************************)
(* matchPattern and the regular expression it builds                       *)
(***************************************************************************)
\* the pattern source handed to new RegExp, without the ^ and $ anchors
RegexPattern(pattern) ==
  ReplaceAll(ReplaceAll(pattern, "*", <<".", "*">>), "/", <<"\\", "/">>)

\* the atoms of a regular expression source: an escaped character or a plain
\* character is a literal, an unescaped dot matches any character, and a
\* following * makes the atom repeat zero or more times
RECURSIVE RegexAtoms(_)
RegexAtoms(src) ==
  IF src = <<>> THEN <<>>
  ELSE LET esc  == Head(src) = "\\" /\ Len(src) >= 2
           n    == IF esc THEN 2 ELSE 1
           rest == SubSeq(src, n + 1, Len(src))
           star == rest # <<>> /\ Head(rest) = "*"
           atom == [any  |-> (~esc /\ Head(src) = "."),
                    ch   |-> src[n],
                    star |-> star]
       IN <<atom>> \o RegexAtoms(IF star THEN Tail(rest) ELSE rest)

AtomAccepts(atom, c) == IF atom.any THEN c # "\n" ELSE c = atom.ch

\* anchored match (^...$) of atoms[i..] against s[j..], with backtracking
RECURSIVE RegexMatchFrom(_, _, _, _)
RegexMatchFrom(atoms, i, s, j) ==
  IF i > Len(atoms) THEN j > Len(s)
  ELSE IF atoms[i].star
       THEN \/ RegexMatchFrom(atoms, i + 1, s, j)
            \/ /\ j <= Len(s)
               /\ AtomAccepts(atoms[i], s[j])
               /\ RegexMatchFrom(atoms, i, s, j + 1)
       ELSE /\ j <= Len(s)
            /\ AtomAccepts(atoms[i], s[j])
            /\ RegexMatchFrom(atoms, i + 1, s, j + 1)

RegExpTest(src, s) == RegexMatchFrom(RegexAtoms(src), 1, s, 1)

\* matchPattern(pathname, pattern): "true", "false", or "TypeError" when
\* pattern is undefined (pattern.includes is read off undefined)
matchPattern(pathname, pattern) ==
  IF pattern = Undefined THEN "TypeError"
  ELSE IF ~Includes(pattern, "*")
       THEN (IF pathname = pattern THEN "true" ELSE "false")
       ELSE (IF RegExpTest(RegexPattern(pattern), pathname) THEN "true" ELSE "false")

\* the callback of redirects.find
RedirectPredicate(pathname, r) ==
  IF pathname = Prop(r, "from") THEN "true"
  ELSE IF StartsWith(pathname, ToStr(Prop(r, "from")) \o <<"/">>) THEN "true"
  ELSE matchPattern(pathname, Prop(r, "from"))

\* the callback of rewrites.find
RewritePredicate(pathname, r) ==
  IF pathname = Prop(r, "from") THEN "true"
  ELSE IF StartsWith(pathname, ToStr(Prop(r, "from")) \o <<"/">>) THEN "true"
  ELSE matchPattern(pathname, Prop(r, "from"))

(***************************************************************************)
(* JavaScript objects used as header maps, and the Headers class           *)
(***************************************************************************)
\* An object with string keys is the sequence of its <<key, value>> entries in
\* insertion order (the order of Object.entries and of a spread).
ObjHas(obj, k) == \E i \in 1..Len(obj) : obj[i][1] = k

\* obj[k] = v
ObjAssign(obj, k, v) ==
  IF ObjHas(obj, k)
  THEN [i \in 1..Len(obj) |-> IF obj[i][1] = k THEN <<k, v>> ELSE obj[i]]
  ELSE Append(obj, <<k, v>>)

\* { ...a, ...b }
RECURSIVE ObjSpread(_, _)
ObjSpread(a, b) ==
  IF b = <<>> THEN a ELSE ObjSpread(ObjAssign(a, b[1][1], b[1][2]), Tail(b))

UpperLetters ==
  <<"A", "B", "C", "D", "E", "F", "G", "H", "I", "J", "K", "L", "M",
    "N", "O", "P", "Q", "R", "S", "T", "U", "V", "W", "X", "Y", "Z">>

LowerLetters ==
  <<"a", "b", "c", "d", "e", "f", "g", "h", "i", "j", "k", "l", "m",
    "n", "o", "p", "q", "r", "s", "t", "u", "v", "w", "x", "y", "z">>

ToLowerChar(c) ==
  IF \E i \in 1..26 : UpperLetters[i] = c
  THEN LowerLetters[CHOOSE i \in 1..26 : UpperLetters[i] = c]
  ELSE c

\* String.prototype.toLowerCase
ToLowerCase(s) == [i \in 1..Len(s) |-> ToLowerChar(s[i])]

\* A Headers object is a function from lower-cased names to the combined value.
EmptyHeaders == <<>>

HeadersSet(h, k, v) == (ToLowerCase(k) :> v) @@ h

HeadersAppend(h, k, v) ==
  IF ToLowerCase(k) \in DOMAIN h
  THEN (ToLowerCase(k) :> (h[ToLowerCase(k)] \o <<",", " ">> \o v)) @@ h
  ELSE (ToLowerCase(k) :> v) @@ h

\* new Headers(obj): every entry of the object is appended
RECURSIVE HeadersFromObj(_, _)
HeadersFromObj(h, obj) ==
  IF obj = <<>> THEN h
  ELSE HeadersFromObj(HeadersAppend(h, obj[1][1], obj[1][2]), Tail(obj))

\* Object.entries(obj).forEach(([k, v]) => h.set(k, v))
RECURSIVE HeadersSetAll(_, _)
HeadersSetAll(h, obj) ==
  IF obj = <<>> THEN h
  ELSE HeadersSetAll(HeadersSet(h, obj[1][1], obj[1][2]), Tail(obj))

(***************************************************************************)
(* fetchRules: CMS entries to rules                                        *)
(***************************************************************************)
\* header_pairs.reduce((acc, pair) => { if (pair.key && pair.value)
\*                                        acc[pair.key] = pair.value; ... }, {})
RECURSIVE ReducePairs(_, _)
ReducePairs(acc, pairs) ==
  IF pairs = <<>> THEN acc
  ELSE LET pair == Head(pairs)
           key == Prop(pair, "key")
           value == Prop(pair, "value")
           truthy == key \notin {Undefined, <<>>} /\ value \notin {Undefined, <<>>}
       IN ReducePairs(IF truthy THEN ObjAssign(acc, key, value) ELSE acc,
                      Tail(pairs))

\* entry[side]?.headers?.header_pairs?.reduce(...) || {}
NormalizeHeaders(entry, side) ==
  IF side \notin DOMAIN entry THEN <<>>
  ELSE IF "headers" \notin DOMAIN entry[side] THEN <<>>
  ELSE IF "header_pairs" \notin DOMAIN entry[side].headers THEN <<>>
  ELSE ReducePairs(<<>>, entry[side].headers.header_pairs)

RedirectRule(entry) ==
  [from    |-> Prop(entry, "source"),
   to      |-> Prop(entry, "destination"),
   type    |-> IF "statuscode" \in DOMAIN entry /\ entry.statuscode # 0
               THEN entry.statuscode ELSE 301,
   headers |-> NormalizeHeaders(entry, "response")]

RewriteRule(entry) ==
  [from            |-> Prop(entry, "source"),
   to              |-> IF Prop(entry, "destination") \in {Undefined, <<>>}
                       THEN <<"/">> ELSE entry.destination,
   requestHeaders  |-> NormalizeHeaders(entry, "request"),
   responseHeaders |-> NormalizeHeaders(entry, "response")]

\* redirectEntries.map(...) and rewriteEntries.map(...)
RedirectRulesOf(entries) == [i \in 1..Len(entries) |-> RedirectRule(entries[i])]

RewriteRulesOf(entries) == [i \in 1..Len(entries) |-> RewriteRule(entries[i])]

(***************************************************************************)
(* fetchRules of part_002: rules built from the first field alias that     *)
(* holds a value                                                           *)
(***************************************************************************)
\* entry.a || entry.b || ...: the first operand that is truthy, else the last
RECURSIVE FirstTruthy(_, _)
FirstTruthy(entry, names) ==
  IF Len(names) = 1 THEN Prop(entry, names[1])
  ELSE IF Prop(entry, Head(names)) \notin {Undefined, <<>>} THEN entry[Head(names)]
  ELSE FirstTruthy(entry, Tail(names))

RedirectRuleAliases(entry) ==
  [from |-> FirstTruthy(entry, <<"url_from", "source", "from", "old_url">>),
   to   |-> FirstTruthy(entry, <<"url_to", "destination", "to", "new_url">>),
   type |-> IF "type" \in DOMAIN entry /\ entry.type # 0 THEN entry.type
            ELSE IF "status_code" \in DOMAIN entry /\ entry.status_code # 0
              THEN entry.status_code
            ELSE 301]

RewriteRuleAliases(entry) ==
  [from |-> FirstTruthy(entry, <<"source_path", "source", "from", "old_url">>),
   to   |-> FirstTruthy(entry, <<"destination_path", "destination", "to", "new_url">>)]

\* the four map callbacks: fetch-rules.js 291-300 and 303-316, part_002 60-64
\* and 67-71
Normalizers == {"redirect", "rewrite", "redirectAliases", "rewriteAliases"}

MapEntry(normalizer, entry) ==
  IF normalizer = "redirect" THEN RedirectRule(entry)
  ELSE IF normalizer = "rewrite" THEN RewriteRule(entry)
  ELSE IF normalizer = "redirectAliases" THEN RedirectRuleAliases(entry)
  ELSE RewriteRuleAliases(entry)

NoRule == [done |-> FALSE, rule |-> [from |-> Undefined, to |-> Undefined]]

(***************************************************************************)
(* updateEdgeFile: the rule tables embedded in the generated handler       *)
(***************************************************************************)
\* JSON.stringify of a rule: a property holding undefined is left out
StringifyRule(rule) ==
  [f \in {g \in DOMAIN rule : g \notin {"from", "to"} \/ rule[g] # Undefined}
     |-> rule[f]]

\* the rules embedded last to first
StringifyRulesReversed(rules) ==
  [i \in 1..Len(rules) |-> StringifyRule(rules[Len(rules) + 1 - i])]

StringifyRules(rules) == [i \in 1..Len(rules) |-> StringifyRule(rules[i])]

(***************************************************************************)
(* The generated handler                                                   *)
(***************************************************************************)
Null == <<"null">>

HttpPrefix == <<"h", "t", "t", "p">>

RscMarker == <<"r", "s", "c">>

NextRouterMarker == <<"n", "e", "x", "t", "-", "r", "o", "u", "t", "e", "r">>

LocationName == <<"L", "o", "c", "a", "t", "i", "o", "n">>

\* redirects.find(...): the index of the first rule whose callback returns
\* true, 0 for undefined, -1 when a callback throws before any returns true
RECURSIVE FindRedirect(_, _, _)
FindRedirect(redirects, pathname, i) ==
  IF i > Len(redirects) THEN 0
  ELSE LET t == RedirectPredicate(pathname, redirects[i])
       IN IF t = "true" THEN i
          ELSE IF t = "TypeError" THEN -1
          ELSE FindRedirect(redirects, pathname, i + 1)

\* rewrites.find(...)
RECURSIVE FindRewrite(_, _, _)
FindRewrite(rewrites, pathname, i) ==
  IF i > Len(rewrites) THEN 0
  ELSE LET t == RewritePredicate(pathname, rewrites[i])
       IN IF t = "true" THEN i
          ELSE IF t = "TypeError" THEN -1
          ELSE FindRewrite(rewrites, pathname, i + 1)

\* rule.to.startsWith("http") ? rule.to : `${url.origin}${rule.to}`
Destination(origin, to) == IF StartsWith(to, HttpPrefix) THEN to ELSE origin \o to

\* new Response(null, { status: redirect.type || 301,
\*                      headers: new Headers({ Location: destination, ...redirect.headers }) })
RedirectResponse(origin, r) ==
  [status  |-> IF "type" \in DOMAIN r /\ r.type # 0 THEN r.type ELSE 301,
   headers |-> HeadersFromObj(EmptyHeaders,
                 ObjSpread(<<<<LocationName, Destination(origin, r.to)>>>>,
                           IF "headers" \in DOMAIN r THEN r.headers ELSE <<>>)),
   body    |-> Null]

\* RewriteCall with the configured request headers appended to the request's
\* own headers instead of replacing them
RewriteCallAppending(origin, req, r) ==
  [url     |-> Destination(origin, r.to),
   method  |-> req.method,
   headers |-> HeadersFromObj(req.headers,
                 IF "requestHeaders" \in DOMAIN r THEN r.requestHeaders ELSE <<>>),
   body    |-> req.body]

\* fetch(destination, { method, headers: requestHeaders, body: request.body })
RewriteCall(origin, req, r) ==
  [url     |-> Destination(origin, r.to),
   method  |-> req.method,
   headers |-> HeadersSetAll(req.headers,
                 IF "requestHeaders" \in DOMAIN r THEN r.requestHeaders ELSE <<>>),
   body    |-> req.body]

\* new Response(response.body, { status, statusText, headers: responseHeaders })
RewriteResponse(r, upstream) ==
  [status  |-> upstream.status,
   headers |-> HeadersSetAll(upstream.headers,
                 IF "responseHeaders" \in DOMAIN r THEN r.responseHeaders ELSE <<>>),
   body    |-> upstream.body]

\* the headers kept by the pass-through loop
CleanHeaders(h) ==
  [k \in {n \in DOMAIN h : /\ ~StartsWith(ToLowerCase(n), RscMarker)
                           /\ ~StartsWith(ToLowerCase(n), NextRouterMarker)}
     |-> h[k]]

\* fetch(request.url, { method, headers: cleanHeaders, body: ... })
PassThroughCall(req) ==
  [url     |-> req.url,
   method  |-> req.method,
   headers |-> CleanHeaders(req.headers),
   body    |-> IF req.method # "GET" /\ req.method # "HEAD"
               THEN req.body ELSE Undefined]

(***************************************************************************)
(* fetchEntries: the credentials it reads and the reply it unwraps.  The   *)
(* repository holds three versions of the function: "A" is                 *)
(* fetch-rules.js 8-213, "B" is fetch-rules.js 247-274 and "C" is          *)
(* part_001 6-101.                                                         *)
(***************************************************************************)
Versions == {"A", "B", "C"}

EnvNames ==
  {"CONTENTSTACK_API_KEY", "NEXT_PUBLIC_CONTENTSTACK_API_KEY",
   "CONTENTSTACK_DELIVERY_TOKEN", "NEXT_PUBLIC_CONTENTSTACK_DELIVERY_TOKEN",
   "CONTENTSTACK_MANAGEMENT_TOKEN", "NEXT_PUBLIC_CONTENTSTACK_MANAGEMENT_TOKEN"}

\* process.env.X || process.env.Y || ...: the first of the names that is set
\* stands for its value, "" for undefined
RECURSIVE FirstSet(_, _)
FirstSet(env, names) ==
  IF names = <<>> THEN ""
  ELSE IF Head(names) \in env THEN Head(names)
  ELSE FirstSet(env, Tail(names))

apiKey(version, env) ==
  IF version = "B" THEN FirstSet(env, <<"CONTENTSTACK_API_KEY">>)
  ELSE FirstSet(env, <<"CONTENTSTACK_API_KEY", "NEXT_PUBLIC_CONTENTSTACK_API_KEY">>)

deliveryToken(version, env) ==
  IF version = "A"
    THEN FirstSet(env, <<"CONTENTSTACK_DELIVERY_TOKEN",
                         "NEXT_PUBLIC_CONTENTSTACK_DELIVERY_TOKEN",
                         "CONTENTSTACK_MANAGEMENT_TOKEN",
                         "NEXT_PUBLIC_CONTENTSTACK_MANAGEMENT_TOKEN">>)
  ELSE IF version = "B"
    THEN FirstSet(env, <<"CONTENTSTACK_DELIVERY_TOKEN", "CONTENTSTACK_MANAGEMENT_TOKEN">>)
  ELSE FirstSet(env, <<"CONTENTSTACK_DELIVERY_TOKEN",
                       "NEXT_PUBLIC_CONTENTSTACK_DELIVERY_TOKEN">>)

\* a check that lets a run through when one of the two credentials is set
ConfigMissingBoth(version, env) ==
  apiKey(version, env) = "" /\ deliveryToken(version, env) = ""

\* !apiKey || !deliveryToken
ConfigMissing(version, env) ==
  apiKey(version, env) = "" \/ deliveryToken(version, env) = ""

\* JavaScript values of a query reply
JUndefined == [tag |-> "undefined"]

JNull == [tag |-> "null"]

JNumber(n) == [tag |-> "number", n |-> n]

JArray(elems) == [tag |-> "array", elems |-> elems]

JObject(fields) == [tag |-> "object", fields |-> fields]

\* the query promise rejects
QueryFails == [tag |-> "rejection"]

IsArray(v) == v.tag = "array"

Nullish(v) == v.tag \in {"null", "undefined"}

Truthy(v) == v.tag \in {"array", "object"} \/ (v.tag = "number" /\ v.n # 0)

\* v[name] of a value that is not nullish
Member(v, name) ==
  IF v.tag = "object" /\ name \in DOMAIN v.fields THEN v.fields[name] ELSE JUndefined

\* v[0] of a value that is not nullish
ElementZero(v) ==
  IF IsArray(v) THEN (IF Len(v.elems) > 0 THEN v.elems[1] ELSE JUndefined)
  ELSE Member(v, "0")

\* fetch-rules.js 171-184
EntriesOfResultA(result) ==
  IF IsArray(result) THEN result
  ELSE IF Truthy(result) /\ IsArray(Member(result, "items")) THEN Member(result, "items")
  ELSE IF Truthy(result) /\ IsArray(ElementZero(result)) THEN ElementZero(result)
  ELSE JArray(<<>>)

\* fetch-rules.js 269: result[0] || [], for a result that is not nullish
EntriesOfResultB(result) ==
  IF Truthy(ElementZero(result)) THEN ElementZero(result) ELSE JArray(<<>>)

\* part_001 85-92
EntriesOfResultC(result) ==
  IF IsArray(result) THEN result
  ELSE IF ~Nullish(result) /\ Truthy(Member(result, "items")) THEN Member(result, "items")
  ELSE IF ~Nullish(result) /\ IsArray(ElementZero(result)) THEN ElementZero(result)
  ELSE JArray(<<>>)

\* one call of fetchEntries: whether the query was issued, how the call ended
\* and the value it returned
fetchEntries(version, env, reply) ==
  IF ConfigMissing(version, env)
    THEN [queried |-> FALSE, outcome |-> "ConfigError", value |-> JUndefined]
  ELSE IF reply = QueryFails
    THEN [queried |-> TRUE, outcome |-> "QueryError", value |-> JUndefined]
  ELSE IF version = "B" /\ Nullish(reply)
    THEN [queried |-> TRUE, outcome |-> "TypeError", value |-> JUndefined]
  ELSE [queried |-> TRUE, outcome |-> "returned",
        value   |-> IF version = "A" THEN EntriesOfResultA(reply)
                    ELSE IF version = "B" THEN EntriesOfResultB(reply)
                    ELSE EntriesOfResultC(reply)]

\* what the fetchRules next to each version maps over: versions A and B call
\* fetchEntries(...).catch(() => []), version C awaits the call as it is, so a
\* throw ends fetchRules without entries
EntriesForRules(version, run) ==
  IF run.outcome = "returned" THEN run.value
  ELSE IF version = "C" THEN JUndefined
  ELSE JArray(<<>>)

NoRun ==
  [done |-> FALSE, queried |-> FALSE, outcome |-> "none", value |-> JUndefined,
   entries |-> JUndefined]

(***************************************************************************)
(* Inputs: CMS entries, requests and upstream responses                    *)
(***************************************************************************)
Origin == <<"h", "t", "t", "p", "s", ":", "/", "/", "s">>

PathOld == <<"/", "o", "l", "d">>

PathNew == <<"/", "n", "e", "w">>

PathA == <<"/", "a">>

PathAb == <<"/", "a", "b">>

PathASlashB == <<"/", "a", "/", "b">>

PathB == <<"/", "b">>

PathC == <<"/", "c">>

PathN == <<"/", "n">>

PatternAStar == <<"/", "a", "*">>

AbsoluteUrl == <<"h", "t", "t", "p", ":", "/", "/", "h">>

NameXA == <<"X", "-", "A">>

NameXaLower == <<"x", "-", "a">>

NameXB == <<"X", "-", "B">>

NameRSC == <<"R", "S", "C">>

NameNextRouter ==
  <<"N", "e", "x", "t", "-", "R", "o", "u", "t", "e", "r", "-",
    "P", "r", "e", "f", "e", "t", "c", "h">>

NameXRsc == <<"x", "-", "r", "s", "c">>

NameAccept == <<"A", "c", "c", "e", "p", "t">>

Pair(k, v) == [key |-> k, value |-> v]

PairList(pairs) == [headers |-> [header_pairs |-> pairs]]

\* entries of the redirect content type
RedirectEntryChoices ==
  { [source |-> PathOld, destination |-> PathNew, statuscode |-> 302],
    [source |-> PathA, destination |-> AbsoluteUrl,
     response |-> PairList(<<Pair(NameXA, <<"1">>)>>)],
    [source |-> PatternAStar, destination |-> PathN],
    [destination |-> PathNew],
    [source |-> PathA] }

\* entries of the rewrite content type
RewriteEntryChoices ==
  { [source |-> PathA, destination |-> PathN,
     request |-> PairList(<<Pair(NameXA, <<"2">>)>>),
     response |-> PairList(<<Pair(NameXB, <<"3">>)>>)],
    [source |-> PathB],
    [source |-> PatternAStar, destination |-> AbsoluteUrl,
     request |-> PairList(<<Pair(NameXA, <<"1">>), Pair(NameXaLower, <<"2">>)>>)],
    [destination |-> AbsoluteUrl] }

SeqsUpTo(S, n) == UNION {[1..k -> S] : k \in 0..n}

Paths == {PathOld, PathA, PathAb, PathASlashB, PathB, PathC}

\* the header lines of a request as sent, before the Headers class folds case
WireHeaderChoices ==
  { <<>>,
    <<<<NameRSC, <<"1">>>>, <<NameAccept, <<"x">>>>, <<NameXaLower, <<"0">>>>>>,
    <<<<NameNextRouter, <<"1">>>>, <<NameXRsc, <<"y">>>>>> }

Request(path, method, wire) ==
  [path    |-> path,
   url     |-> Origin \o path,
   method  |-> method,
   wire    |-> wire,
   headers |-> HeadersFromObj(EmptyHeaders, wire),
   body    |-> IF method = "POST" THEN <<"B">> ELSE Null]

Requests ==
  {Request(p, m, w) : p \in Paths, m \in {"GET", "POST"}, w \in WireHeaderChoices}

UpstreamResponses ==
  { [status |-> 200,
     headers |-> HeadersFromObj(EmptyHeaders,
                   <<<<NameXB, <<"9">>>>, <<NameAccept, <<"z">>>>>>),
     body |-> <<"U">>],
    [status |-> 404, headers |-> EmptyHeaders, body |-> <<"N">>] }

NoRequest == Request(<<>>, "GET", <<>>)

NoResponse == [status |-> 0, headers |-> EmptyHeaders, body |-> Undefined]

\* what an outbound fetch that rejects settles with: no response
NetworkError == [status |-> 0, headers |-> EmptyHeaders, body |-> Null]

\* the target path holds no file
NoFile ==
  [state |-> "absent", timestamp |-> 0, redirectCount |-> 0, rewriteCount |-> 0,
   redirects |-> <<>>, rewrites |-> <<>>]

\* the target path after writeFileSync opened it (flag "w": create or
\* truncate) and before the content is written out
TruncatedFile == [NoFile EXCEPT !.state = "partial"]

\* a promise: "idle" before the call that creates it
NoPromise == [state |-> "idle", value |-> <<>>]

PendingPromise == [state |-> "pending", value |-> <<>>]

Fulfilled(v) == [state |-> "fulfilled", value |-> v]

Rejected == [state |-> "rejected", value |-> <<>>]

(***************************************************************************)
(* State                                                                   *)
(***************************************************************************)
VARIABLES
  rulesVersion,     \* the version of fetch-rules.js the build script imports
  pc,               \* build position: "start", "fetching", "fetched", "writing",
                    \* "written", "failed", "exit1", "interrupted"
  redirectFetch,    \* the promise of fetchEntries(redirectCT)
  rewriteFetch,     \* the promise of fetchEntries(rewriteCT)
  redirectEntries,  \* fetchRules' redirectEntries, destructured from Promise.all
  rewriteEntries,   \* fetchRules' rewriteEntries
  dirExists,        \* the functions directory exists
  now,              \* the clock reading new Date() returns during this build
  previous,         \* what the target path held when this build started
  redirectRules,    \* fetchRules' result
  rewriteRules,
  edgeFile,         \* the target path: the generated file's header and tables
  request,          \* the request of the current handler invocation
  hpc,              \* handler position: "idle", "awaitRewrite", "awaitOrigin", "done"
  redirect,         \* result of redirects.find (index, 0 = undefined, -1 = threw)
  rewrite,          \* result of rewrites.find
  calls,            \* outbound fetch calls of the current invocation
  fetched,          \* what the awaited fetch settled with: the upstream
                    \* response, or NetworkError
  outcome,          \* "none", "redirect", "rewrite", "passthrough", "TypeError",
                    \* "FetchError"
  response,         \* the response the invocation returned
  mRule,            \* matcher evaluation: the rule handed to the find callbacks
  mPathname,        \* matcher evaluation: the request path
  mResult,          \* matcher evaluation: results of the three functions
  hHeaders,         \* header normalization: the entry's response.headers value
  hDone,            \* header normalization: the normalizer has run
  hResult,          \* header normalization: the rule's headers map
  hAgainDone,       \* header normalization: the normalizer has run on hResult
  hAgain,           \* header normalization: the headers map of that second run
  fEnv,             \* fetchEntries: the environment variables that are set
  fReply,           \* fetchEntries: what the CMS query settles with
  fRuns,            \* fetchEntries: the run of each version of the function
  aEntry,           \* field aliases: the entry handed to the map callbacks
  aRules            \* field aliases: the rule each map callback built

vars == <<rulesVersion, pc, redirectFetch, rewriteFetch, redirectEntries,
          rewriteEntries, dirExists, now, previous, redirectRules, rewriteRules,
          edgeFile, request, hpc, redirect, rewrite, calls, fetched, outcome,
          response, mRule, mPathname, mResult, hHeaders, hDone, hResult,
          hAgainDone, hAgain, fEnv, fReply, fRuns, aEntry, aRules>>

matchVars == <<mRule, mPathname, mResult>>

headerVars == <<hHeaders, hDone, hResult, hAgainDone, hAgain>>

entriesVars == <<fEnv, fReply, fRuns>>

aliasVars == <<aEntry, aRules>>

buildVars == <<rulesVersion, pc, redirectFetch, rewriteFetch, redirectEntries,
               rewriteEntries, dirExists, now, previous, redirectRules,
               rewriteRules, edgeFile>>

fetchVars == <<redirectFetch, rewriteFetch>>

\* what the build reads and does not change: the imported version, the clock,
\* the earlier file; and the directory, which only updateEdgeFile makes
fsVars == <<rulesVersion, dirExists, now, previous>>

handlerVars == <<request, hpc, redirect, rewrite, calls, fetched, outcome, response>>

Unset == [matchPattern |-> "unset", redirect |-> "unset", rewrite |-> "unset"]

BuildIdle ==
  /\ rulesVersion = "B"
  /\ pc = "idle"
  /\ redirectFetch = NoPromise
  /\ rewriteFetch = NoPromise
  /\ redirectEntries = <<>>
  /\ rewriteEntries = <<>>
  /\ dirExists = FALSE
  /\ now = 0
  /\ previous = NoFile
  /\ redirectRules = <<>>
  /\ rewriteRules = <<>>
  /\ edgeFile = NoFile

MatchIdle ==
  /\ mRule = [to |-> PathN]
  /\ mPathname = <<"/">>
  /\ mResult = Unset

HeadersIdle ==
  /\ hHeaders = [header_pairs |-> <<>>]
  /\ hDone = FALSE
  /\ hResult = <<>>
  /\ hAgainDone = FALSE
  /\ hAgain = <<>>

EntriesIdle ==
  /\ fEnv = {}
  /\ fReply = JNull
  /\ fRuns = [v \in Versions |-> NoRun]

AliasIdle ==
  /\ aEntry = [source |-> <<"/">>]
  /\ aRules = [n \in Normalizers |-> NoRule]

HandlerIdle ==
  /\ request = NoRequest
  /\ hpc = "idle"
  /\ redirect = 0
  /\ rewrite = 0
  /\ calls = <<>>
  /\ fetched = NoResponse
  /\ outcome = "none"
  /\ response = NoResponse

\* the script has been started and has not yet called fetchRules
BuildStart ==
  /\ pc = "start"
  /\ redirectFetch = NoPromise
  /\ rewriteFetch = NoPromise
  /\ redirectEntries = <<>>
  /\ rewriteEntries = <<>>
  /\ redirectRules = <<>>
  /\ rewriteRules = <<>>
  /\ previous = edgeFile

\* the first build of a checkout that has no functions directory yet
Init ==
  /\ rulesVersion = "B"
  /\ dirExists = FALSE
  /\ edgeFile = NoFile
  /\ now = 1
  /\ BuildStart
  /\ HandlerIdle
  /\ MatchIdle
  /\ HeadersIdle
  /\ EntriesIdle
  /\ AliasIdle

(***************************************************************************)
(* Build                                                                   *)
(***************************************************************************)
\* a promise handed to Promise.all without a catch handler
CatchNothing(p) == p

\* promise.catch(() => [])
CatchEmpty(p) == IF p.state = "rejected" THEN Fulfilled(<<>>) ELSE p

\* a combinator that is fulfilled as soon as one of the two is fulfilled
PromiseAllEarly(a, b) ==
  IF a.state = "rejected" \/ b.state = "rejected" THEN Rejected
  ELSE IF a.state = "fulfilled" \/ b.state = "fulfilled"
    THEN Fulfilled(<<a.value, b.value>>)
  ELSE PendingPromise

\* Promise.all([a, b]): rejected once one of the two is rejected, fulfilled
\* with both values once both are fulfilled
PromiseAll(a, b) ==
  IF a.state = "rejected" \/ b.state = "rejected" THEN Rejected
  ELSE IF a.state = "fulfilled" /\ b.state = "fulfilled"
    THEN Fulfilled(<<a.value, b.value>>)
  ELSE PendingPromise

\* a file text whose header counts also number the build by the clock
EdgeCodeNumbered(redirects, rewrites, timestamp) ==
  [state         |-> "complete",
   timestamp     |-> timestamp,
   redirectCount |-> Len(redirects) + timestamp,
   rewriteCount  |-> Len(rewrites) + timestamp,
   redirects     |-> StringifyRules(redirects),
   rewrites      |-> StringifyRules(rewrites)]

\* the template literal of updateEdgeFile: the header comment with the
\* timestamp and the two counts, and the handler with the two tables
EdgeCode(redirects, rewrites, timestamp) ==
  [state         |-> "complete",
   timestamp     |-> timestamp,
   redirectCount |-> Len(redirects),
   rewriteCount  |-> Len(rewrites),
   redirects     |-> StringifyRules(redirects),
   rewrites      |-> StringifyRules(rewrites)]

\* fetchRules of version B returns { redirectRules, rewriteRules }; versions A
\* and C return { redirectRules }
ReturnsRewriteRules(version) == version = "B"

\* updateEdgeFile calls fetchRules.  Version B evaluates the array literal
\* handed to Promise.all: both fetchEntries calls run up to their query before
\* fetchRules awaits.  Versions A and C fetch the redirect content type only
startFetches ==
  /\ pc = "start"
  /\ redirectFetch' = PendingPromise
  /\ rewriteFetch' = IF rulesVersion = "B" THEN PendingPromise ELSE rewriteFetch
  /\ pc' = "fetching"
  /\ UNCHANGED <<redirectEntries, rewriteEntries, redirectRules, rewriteRules,
                 edgeFile, fsVars, handlerVars, matchVars, headerVars,
                 entriesVars, aliasVars>>

\* fetchEntries(redirectCT) returns the entries of the query, or throws
redirectFetchSettles(result) ==
  /\ redirectFetch.state = "pending"
  /\ redirectFetch' = result
  /\ UNCHANGED <<pc, rewriteFetch, redirectEntries, rewriteEntries, redirectRules,
                 rewriteRules, edgeFile, fsVars, handlerVars, matchVars,
                 headerVars, entriesVars, aliasVars>>

\* fetchEntries(rewriteCT) returns the entries of the query, or throws
rewriteFetchSettles(result) ==
  /\ rewriteFetch.state = "pending"
  /\ rewriteFetch' = result
  /\ UNCHANGED <<pc, redirectFetch, redirectEntries, rewriteEntries, redirectRules,
                 rewriteRules, edgeFile, fsVars, handlerVars, matchVars,
                 headerVars, entriesVars, aliasVars>>

\* what fetchRules awaits: version B its Promise.all of the two caught
\* fetches, version A the caught redirect fetch, version C the redirect fetch
\* as it is
Awaited(version, redirectPromise, rewritePromise) ==
  IF version = "B"
    THEN PromiseAll(CatchEmpty(redirectPromise), CatchEmpty(rewritePromise))
  ELSE LET p == IF version = "A" THEN CatchEmpty(redirectPromise) ELSE redirectPromise
       IN IF p.state = "fulfilled" THEN Fulfilled(<<p.value, <<>>>>) ELSE p

\* fetchRules from the settling of what it awaits to its return, or to its
\* rejection, which updateEdgeFile does not catch
fetchRules ==
  /\ pc = "fetching"
  /\ LET all == Awaited(rulesVersion, redirectFetch, rewriteFetch)
     IN /\ all.state # "pending"
        /\ IF all.state = "rejected"
           THEN /\ pc' = "failed"
                /\ UNCHANGED <<redirectEntries, rewriteEntries, redirectRules,
                               rewriteRules>>
           ELSE /\ redirectEntries' = all.value[1]
                /\ rewriteEntries' = all.value[2]
                /\ redirectRules' = RedirectRulesOf(all.value[1])
                /\ rewriteRules' = RewriteRulesOf(all.value[2])
                /\ pc' = "fetched"
  /\ UNCHANGED <<fetchVars, edgeFile, fsVars, handlerVars, matchVars, headerVars,
                 entriesVars, aliasVars>>

\* an updateEdgeFile that opens the target path before it builds the file text
updateEdgeFileOpeningFirst ==
  /\ pc = "fetched"
  /\ dirExists' = TRUE
  /\ edgeFile' = TruncatedFile
  /\ pc' = IF ReturnsRewriteRules(rulesVersion) THEN "writing" ELSE "failed"
  /\ UNCHANGED <<fetchVars, redirectEntries, rewriteEntries, redirectRules,
                 rewriteRules, rulesVersion, now, previous, handlerVars, matchVars,
                 headerVars, entriesVars, aliasVars>>

\* updateEdgeFile after fetchRules returned: the directory is made when absent,
\* the file text is built, and writeFileSync opens the target path.  Building
\* the text reads rewriteRules.length, which throws when fetchRules returned no
\* rewriteRules
updateEdgeFile ==
  /\ pc = "fetched"
  /\ dirExists' = TRUE
  /\ IF ReturnsRewriteRules(rulesVersion)
     THEN edgeFile' = TruncatedFile /\ pc' = "writing"
     ELSE edgeFile' = edgeFile /\ pc' = "failed"
  /\ UNCHANGED <<fetchVars, redirectEntries, rewriteEntries, redirectRules,
                 rewriteRules, rulesVersion, now, previous, handlerVars, matchVars,
                 headerVars, entriesVars, aliasVars>>

\* a write step that puts the earlier file back when both rule lists are empty
writeFileSyncKeepingRules ==
  /\ pc = "writing"
  /\ edgeFile' = IF redirectRules = <<>> /\ rewriteRules = <<>> THEN previous
                  ELSE EdgeCode(redirectRules, rewriteRules, now)
  /\ pc' = "written"
  /\ UNCHANGED <<fetchVars, redirectEntries, rewriteEntries, redirectRules,
                 rewriteRules, fsVars, handlerVars, matchVars, headerVars,
                 entriesVars, aliasVars>>

\* writeFileSync writes the text out and closes the file; updateEdgeFile returns
writeFileSync ==
  /\ pc = "writing"
  /\ edgeFile' = EdgeCode(redirectRules, rewriteRules, now)
  /\ pc' = "written"
  /\ UNCHANGED <<fetchVars, redirectEntries, rewriteEntries, redirectRules,
                 rewriteRules, fsVars, handlerVars, matchVars, headerVars,
                 entriesVars, aliasVars>>

\* the script was run directly: updateEdgeFile().catch logs the error and
\* calls process.exit(1)
exitOnError ==
  /\ pc = "failed"
  /\ pc' = "exit1"
  /\ UNCHANGED <<fetchVars, redirectEntries, rewriteEntries, redirectRules,
                 rewriteRules, edgeFile, fsVars, handlerVars, matchVars,
                 headerVars, entriesVars, aliasVars>>

\* the build process is killed
interrupt ==
  /\ pc \in {"fetching", "fetched", "writing"}
  /\ pc' = "interrupted"
  /\ UNCHANGED <<fetchVars, redirectEntries, rewriteEntries, redirectRules,
                 rewriteRules, edgeFile, fsVars, handlerVars, matchVars,
                 headerVars, entriesVars, aliasVars>>

FetchResults(choices) ==
  {Rejected} \cup {Fulfilled(entries) : entries \in SeqsUpTo(choices, MaxRules)}

NextBuild ==
  \/ startFetches
  \/ \E result \in FetchResults(RedirectEntryChoices) : redirectFetchSettles(result)
  \/ \E result \in FetchResults(RewriteEntryChoices) : rewriteFetchSettles(result)
  \/ fetchRules
  \/ updateEdgeFile
  \/ writeFileSync
  \/ interrupt

(***************************************************************************)
(* Serving                                                                 *)
(***************************************************************************)
\* one invocation of handler(request), up to its return, its throw, or its
\* await of the outbound fetch
handler(req) ==
  /\ pc = "written"
  /\ hpc = "idle"
  /\ request' = req
  /\ LET ri == FindRedirect(edgeFile.redirects, req.path, 1)
         wi == FindRewrite(edgeFile.rewrites, req.path, 1)
         throw == /\ hpc' = "done"
                  /\ outcome' = "TypeError"
                  /\ calls' = <<>>
                  /\ response' = NoResponse
     IN /\ redirect' = ri
        /\ IF ri = -1 THEN rewrite' = 0 /\ throw
           ELSE IF ri > 0
             THEN /\ rewrite' = 0
                  /\ IF "to" \notin DOMAIN edgeFile.redirects[ri] THEN throw
                     ELSE /\ hpc' = "done"
                          /\ outcome' = "redirect"
                          /\ calls' = <<>>
                          /\ response' = RedirectResponse(Origin, edgeFile.redirects[ri])
           ELSE /\ rewrite' = wi
                /\ IF wi = -1 THEN throw
                   ELSE IF wi > 0
                     THEN IF "to" \notin DOMAIN edgeFile.rewrites[wi] THEN throw
                          ELSE /\ hpc' = "awaitRewrite"
                               /\ outcome' = "none"
                               /\ calls' = <<RewriteCall(Origin, req, edgeFile.rewrites[wi])>>
                               /\ response' = NoResponse
                   ELSE /\ hpc' = "awaitOrigin"
                        /\ outcome' = "none"
                        /\ calls' = <<PassThroughCall(req)>>
                        /\ response' = NoResponse
  /\ fetched' = NoResponse
  /\ UNCHANGED <<buildVars, matchVars, headerVars, entriesVars, aliasVars>>

\* the outbound fetch resolves with an upstream response
fetchResolves(upstream) ==
  /\ hpc \in {"awaitRewrite", "awaitOrigin"}
  /\ IF hpc = "awaitRewrite"
     THEN /\ outcome' = "rewrite"
          /\ response' = RewriteResponse(edgeFile.rewrites[rewrite], upstream)
     ELSE /\ outcome' = "passthrough"
          /\ response' = upstream
  /\ fetched' = upstream
  /\ hpc' = "done"
  /\ UNCHANGED <<buildVars, request, redirect, rewrite, calls, matchVars, headerVars, entriesVars, aliasVars>>

\* a handler that answers 502 itself when the outbound fetch rejects
fetchRejectsAnswering ==
  /\ hpc \in {"awaitRewrite", "awaitOrigin"}
  /\ outcome' = IF hpc = "awaitRewrite" THEN "rewrite" ELSE "passthrough"
  /\ response' = [status |-> 502, headers |-> EmptyHeaders, body |-> Null]
  /\ fetched' = NetworkError
  /\ hpc' = "done"
  /\ UNCHANGED <<buildVars, request, redirect, rewrite, calls, matchVars, headerVars,
                 entriesVars, aliasVars>>

\* the outbound fetch rejects: the await throws, the handler has no try, and
\* the invocation ends with that error
fetchRejects ==
  /\ hpc \in {"awaitRewrite", "awaitOrigin"}
  /\ outcome' = "FetchError"
  /\ response' = NoResponse
  /\ fetched' = NetworkError
  /\ hpc' = "done"
  /\ UNCHANGED <<buildVars, request, redirect, rewrite, calls, matchVars, headerVars,
                 entriesVars, aliasVars>>

Next ==
  \/ NextBuild
  \/ \E req \in Requests : handler(req)
  \/ \E upstream \in UpstreamResponses : fetchResolves(upstream)
  \/ fetchRejects

Spec == Init /\ [][Next]_vars

TypeOK ==
  /\ rulesVersion \in Versions
  /\ pc \in {"idle", "start", "fetching", "fetched", "writing", "written",
            "failed", "exit1", "interrupted"}
  /\ edgeFile.state \in {"absent", "partial", "complete"}
  /\ hpc \in {"idle", "awaitRewrite", "awaitOrigin", "done"}
  /\ outcome \in {"none", "redirect", "rewrite", "passthrough", "TypeError",
                 "FetchError"}
  /\ Len(calls) <= 1

(***************************************************************************)
(* The build script on its own, started in each state the file system can  *)
(* be in                                                                   *)
(***************************************************************************)
OldRedirectEntries == <<[source |-> PathOld, destination |-> PathNew, statuscode |-> 302]>>

\* no functions directory; a directory without the file; a file that an
\* earlier build wrote, with empty tables or with one redirect
BuildStarts ==
  { [dirExists |-> FALSE, edgeFile |-> NoFile, now |-> 1],
    [dirExists |-> TRUE, edgeFile |-> NoFile, now |-> 1],
    [dirExists |-> TRUE, edgeFile |-> EdgeCode(<<>>, <<>>, 1), now |-> 2],
    [dirExists |-> TRUE,
     edgeFile  |-> EdgeCode(RedirectRulesOf(OldRedirectEntries), <<>>, 1),
     now       |-> 2] }

InitBuild ==
  /\ rulesVersion = "B"
  /\ \E st \in BuildStarts :
       /\ dirExists = st.dirExists
       /\ edgeFile = st.edgeFile
       /\ now = st.now
  /\ BuildStart
  /\ HandlerIdle
  /\ MatchIdle
  /\ HeadersIdle
  /\ EntriesIdle
  /\ AliasIdle

SpecBuild == InitBuild /\ [][NextBuild]_vars

(***************************************************************************)
(* The build script importing each version of fetch-rules.js, run directly *)
(* or called                                                               *)
(***************************************************************************)
InitScript ==
  /\ rulesVersion \in Versions
  /\ \E st \in BuildStarts :
       /\ dirExists = st.dirExists
       /\ edgeFile = st.edgeFile
       /\ now = st.now
  /\ BuildStart
  /\ HandlerIdle
  /\ MatchIdle
  /\ HeadersIdle
  /\ EntriesIdle
  /\ AliasIdle

NextScript == NextBuild \/ exitOnError

SpecScript == InitScript /\ [][NextScript]_vars

(***************************************************************************)
(* A build over the file of an earlier build, followed by one invocation   *)
(***************************************************************************)
InitRebuild ==
  /\ rulesVersion = "B"
  /\ dirExists = TRUE
  /\ edgeFile = EdgeCode(RedirectRulesOf(OldRedirectEntries), <<>>, 1)
  /\ now = 2
  /\ BuildStart
  /\ HandlerIdle
  /\ MatchIdle
  /\ HeadersIdle
  /\ EntriesIdle
  /\ AliasIdle

SpecRebuild == InitRebuild /\ [][Next]_vars

(***************************************************************************)
(* The matcher on its own: one rule, one path                              *)
(***************************************************************************)
PatternChars == {"/", "a", ".", "*"}

PathChars == {"/", "a", "."}

BlogStar == <<"/", "b", "l", "o", "g", "/", "*">>

BlogPost1 == <<"/", "b", "l", "o", "g", "/", "p", "o", "s", "t", "-", "1">>

\* a URL pathname starts with "/"
MatchPaths == {<<"/">> \o s : s \in StrsUpTo(PathChars, MaxLen - 1)}

MatchRules == {[from |-> p] : p \in StrsUpTo(PatternChars, MaxLen)} \cup {[to |-> PathN]}

MatchCases == (MatchRules \X MatchPaths) \cup {<<[from |-> BlogStar], BlogPost1>>}

InitMatch ==
  /\ \E c \in MatchCases : mRule = c[1] /\ mPathname = c[2]
  /\ mResult = Unset
  /\ BuildIdle
  /\ HandlerIdle
  /\ HeadersIdle
  /\ EntriesIdle
  /\ AliasIdle

callMatchPattern ==
  /\ mResult.matchPattern = "unset"
  /\ mResult' = [mResult EXCEPT !.matchPattern = matchPattern(mPathname, Prop(mRule, "from"))]
  /\ UNCHANGED <<mRule, mPathname, buildVars, handlerVars, headerVars, entriesVars, aliasVars>>

callRedirectPredicate ==
  /\ mResult.redirect = "unset"
  /\ mResult' = [mResult EXCEPT !.redirect = RedirectPredicate(mPathname, mRule)]
  /\ UNCHANGED <<mRule, mPathname, buildVars, handlerVars, headerVars, entriesVars, aliasVars>>

callRewritePredicate ==
  /\ mResult.rewrite = "unset"
  /\ mResult' = [mResult EXCEPT !.rewrite = RewritePredicate(mPathname, mRule)]
  /\ UNCHANGED <<mRule, mPathname, buildVars, handlerVars, headerVars, entriesVars, aliasVars>>

NextMatch == callMatchPattern \/ callRedirectPredicate \/ callRewritePredicate

SpecMatch == InitMatch /\ [][NextMatch]_vars

(***************************************************************************)
(* Header normalization on its own: one entry's response headers           *)
(***************************************************************************)
PairKeys == {NameXA, NameXB, <<>>}

PairValues == {<<"1">>, <<"2">>, <<>>}

\* {key, value} pairs, either property possibly absent or empty
PairChoices ==
  {Pair(k, v) : k \in PairKeys, v \in PairValues}
    \cup {[key |-> k] : k \in PairKeys}
    \cup {[value |-> v] : v \in PairValues}
    \cup {[uid |-> <<"u">>]}

\* a flat map { name: value, ... }; its property names are header names, so it
\* has no header_pairs property
FlatMaps ==
  {<<>>}
    \cup {<<<<k, v>>>> : k \in {NameXA, NameXB}, v \in {<<"1">>, <<"2">>}}
    \cup {<<<<NameXA, v>>, <<NameXB, w>>>> : v \in {<<"1">>, <<"2">>}, w \in {<<"1">>, <<"2">>}}

HeaderRepresentations ==
  {[header_pairs |-> l] : l \in SeqsUpTo(PairChoices, MaxPairs)}
    \cup {[flat |-> m] : m \in FlatMaps}

InitHeaders ==
  /\ hHeaders \in HeaderRepresentations
  /\ hDone = FALSE
  /\ hResult = <<>>
  /\ hAgainDone = FALSE
  /\ hAgain = <<>>
  /\ BuildIdle
  /\ HandlerIdle
  /\ MatchIdle
  /\ EntriesIdle
  /\ AliasIdle

normalizeHeaders ==
  /\ ~hDone
  /\ hResult' = RedirectRule([source |-> PathA, destination |-> PathN,
                              response |-> [headers |-> hHeaders]]).headers
  /\ hDone' = TRUE
  /\ UNCHANGED <<hHeaders, hAgainDone, hAgain, buildVars, handlerVars, matchVars, entriesVars, aliasVars>>

\* the normalizer run on an entry whose response.headers is the flat map that
\* the first run produced
renormalizeHeaders ==
  /\ hDone
  /\ ~hAgainDone
  /\ hAgain' = RedirectRule([source |-> PathA, destination |-> PathN,
                             response |-> [headers |-> [flat |-> hResult]]]).headers
  /\ hAgainDone' = TRUE
  /\ UNCHANGED <<hHeaders, hDone, hResult, buildVars, handlerVars, matchVars, entriesVars, aliasVars>>

NextHeaders == normalizeHeaders \/ renormalizeHeaders

SpecHeaders == InitHeaders /\ [][NextHeaders]_vars

(***************************************************************************)
(* fetchEntries on its own: one environment, one query reply               *)
(***************************************************************************)
Entry1 == JObject([uid |-> "e1"])

Entry2 == JObject([uid |-> "e2"])

\* a rejection, no value, a bare array, an object with items, an array whose
\* first element is the list, and objects without a list
Replies ==
  { QueryFails, JNull, JUndefined,
    JArray(<<>>), JArray(<<Entry1>>), JArray(<<Entry1, Entry2>>),
    JObject([items |-> JArray(<<Entry1, Entry2>>), count |-> JNumber(2)]),
    JObject([items |-> JArray(<<>>)]),
    JArray(<<JArray(<<Entry1, Entry2>>)>>),
    JArray(<<JArray(<<Entry1>>), JNumber(1)>>),
    JArray(<<JArray(<<>>)>>),
    JObject([count |-> JNumber(0)]),
    JObject([items |-> JNumber(2)]) }

InitEntries ==
  /\ fEnv \in SUBSET EnvNames
  /\ fReply \in Replies
  /\ fRuns = [v \in Versions |-> NoRun]
  /\ BuildIdle
  /\ HandlerIdle
  /\ MatchIdle
  /\ HeadersIdle
  /\ AliasIdle

callFetchEntries(version) ==
  /\ ~fRuns[version].done
  /\ LET run == fetchEntries(version, fEnv, fReply)
     IN fRuns' = [fRuns EXCEPT ![version] =
                    [done |-> TRUE, queried |-> run.queried, outcome |-> run.outcome,
                     value |-> run.value, entries |-> EntriesForRules(version, run)]]
  /\ UNCHANGED <<fEnv, fReply, buildVars, handlerVars, matchVars, headerVars,
                 aliasVars>>

NextEntries == \E version \in Versions : callFetchEntries(version)

SpecEntries == InitEntries /\ [][NextEntries]_vars

(***************************************************************************)
(* The map callbacks on their own: one entry that carries any of the       *)
(* field aliases                                                           *)
(***************************************************************************)
AliasNames ==
  <<"url_from", "source", "from", "old_url", "url_to", "destination", "to",
    "new_url", "source_path", "destination_path">>

\* the value a field holds when it is filled in: a path that tells the fields
\* apart
AliasValue(i) == <<"/", <<"a", "b", "c", "d", "e", "f", "g", "h", "i", "j">>[i]>>

\* an entry carries a subset of the fields; url_from may be there and empty
AliasEntries ==
  UNION { { [n \in {AliasNames[i] : i \in filled} |-> AliasValue(CHOOSE i \in filled : AliasNames[i] = n)],
            [n \in {AliasNames[i] : i \in filled} \cup {"url_from"} |->
               IF n = "url_from" THEN <<>>
               ELSE AliasValue(CHOOSE i \in filled : AliasNames[i] = n)] }
          : filled \in SUBSET (1..Len(AliasNames)) }

InitAlias ==
  /\ aEntry \in AliasEntries
  /\ aRules = [n \in Normalizers |-> NoRule]
  /\ BuildIdle
  /\ HandlerIdle
  /\ MatchIdle
  /\ HeadersIdle
  /\ EntriesIdle

callMapEntry(normalizer) ==
  /\ ~aRules[normalizer].done
  /\ aRules' = [aRules EXCEPT ![normalizer] =
                  [done |-> TRUE, rule |-> MapEntry(normalizer, aEntry)]]
  /\ UNCHANGED <<aEntry, buildVars, handlerVars, matchVars, headerVars, entriesVars>>

NextAlias == \E normalizer \in Normalizers : callMapEntry(normalizer)

SpecAlias == InitAlias /\ [][NextAlias]_vars

(***************************************************************************)
(* Properties                                                              *)
(***************************************************************************)
Min(S) == CHOOSE x \in S : \A y \in S : x <= y

Max(S) == CHOOSE x \in S : \A y \in S : x >= y

\* the wildcard reading of a pattern: * stands for any substring, every other
\* character for itself, and the pattern covers the whole path
RECURSIVE WildMatch(_, _)
WildMatch(p, t) ==
  IF p = <<>> THEN t = <<>>
  ELSE IF Head(p) = "*"
       THEN WildMatch(Tail(p), t) \/ (t # <<>> /\ WildMatch(p, Tail(t)))
       ELSE t # <<>> /\ Head(t) = Head(p) /\ WildMatch(Tail(p), Tail(t))

\* the three ways a path matches a rule's from
PathMatchesFrom(path, from) ==
  \/ path = from
  \/ StartsWith(path, from \o <<"/">>)
  \/ Includes(from, "*") /\ WildMatch(from, path)

RuleMatches(path, r) == "from" \in DOMAIN r /\ PathMatchesFrom(path, r.from)

MatchingRules(table, path) == {i \in 1..Len(table) : RuleMatches(path, table[i])}

IsAbsoluteUrl(u) ==
  \/ StartsWith(u, <<"h", "t", "t", "p", ":", "/", "/">>)
  \/ StartsWith(u, <<"h", "t", "t", "p", "s", ":", "/", "/">>)

ExpectedDestination(to) == IF IsAbsoluteUrl(to) THEN to ELSE Origin \o to

Invoked == hpc # "idle"

EndsWith(s, p) == Len(p) <= Len(s) /\ SubSeq(s, Len(s) - Len(p) + 1, Len(s)) = p

\* C1: an invocation whose outbound call succeeds ends in a redirect, a
\* rewrite or a pass-through, never in an exception
C1_ThreeOutcomes ==
  (hpc = "done" /\ fetched # NetworkError) =>
    outcome \in {"redirect", "rewrite", "passthrough"}

\* C2: within a table the handler applies the lowest-index rule whose from
\* matches the request path, never a later one
C2_FirstMatchWins ==
  Invoked =>
    LET reds == MatchingRules(edgeFile.redirects, request.path)
        rews == MatchingRules(edgeFile.rewrites, request.path)
    IN /\ reds # {} => redirect = Min(reds)
       /\ (reds = {} /\ rews # {}) => rewrite = Min(rews)

\* C3: when any redirect rule matches the path, the outcome is a redirect,
\* the rewrite table is not consulted and no outbound call is made
C3_RedirectPrecedence ==
  (Invoked /\ MatchingRules(edgeFile.redirects, request.path) # {}) =>
    /\ outcome = "redirect"
    /\ rewrite = 0
    /\ calls = <<>>

\* C4: a rule matches a path exactly when the path equals from, begins with
\* from followed by "/", or is covered by from read as a wildcard pattern;
\* the redirect table and the rewrite table use the same predicate
C4_MatchPredicate ==
  "from" \in DOMAIN mRule =>
    /\ mResult.redirect # "unset" =>
         (mResult.redirect = "true" <=> PathMatchesFrom(mPathname, mRule.from))
    /\ mResult.rewrite # "unset" =>
         (mResult.rewrite = "true" <=> PathMatchesFrom(mPathname, mRule.from))

\* C5: for a pattern containing *, matchPattern accepts exactly the paths the
\* wildcard reading covers (each * any substring, every other character
\* itself, whole path); /blog/* accepts /blog/post-1
C5_WildcardSemantics ==
  ("from" \in DOMAIN mRule /\ mResult.matchPattern # "unset") =>
    /\ Includes(mRule.from, "*") =>
         (mResult.matchPattern = "true" <=> WildMatch(mRule.from, mPathname))
    /\ (mRule.from = BlogStar /\ mPathname = BlogPost1) =>
         mResult.matchPattern = "true"

\* the names an object configures, as the Headers class folds them
ConfiguredNames(obj) == {ToLowerCase(obj[i][1]) : i \in 1..Len(obj)}

\* the value the object configures for a folded name (its last such entry)
ConfiguredValue(obj, n) ==
  obj[Max({i \in 1..Len(obj) : ToLowerCase(obj[i][1]) = n})][2]

\* result is base with every configured header replacing the same-named one
\* and every other header carried over unchanged
MergedInto(result, base, obj) ==
  /\ DOMAIN result = DOMAIN base \cup ConfiguredNames(obj)
  /\ \A n \in DOMAIN result :
       result[n] = IF n \in ConfiguredNames(obj) THEN ConfiguredValue(obj, n)
                   ELSE base[n]

\* C6: a selected redirect rule yields a bodyless response with the rule's
\* status (301 when the entry configures none), Location equal to `to` when
\* absolute and origin + `to` otherwise, and every extra header of the rule;
\* {from:/old, to:/new, type:302} on /old gives 302 with Location ending /new
C6_RedirectResponse ==
  (Invoked /\ redirect > 0) =>
    LET r == edgeFile.redirects[redirect]
        entry == redirectEntries[redirect]
    IN /\ outcome = "redirect"
       /\ response.body = Null
       /\ response.status =
            (IF "statuscode" \in DOMAIN entry THEN entry.statuscode ELSE 301)
       /\ response.headers[ToLowerCase(LocationName)] = ExpectedDestination(r.to)
       /\ \A i \in 1..Len(r.headers) :
            response.headers[ToLowerCase(r.headers[i][1])] = r.headers[i][2]
       /\ (r.from = PathOld /\ r.to = PathNew /\ r.type = 302 /\ request.path = PathOld) =>
            /\ response.status = 302
            /\ EndsWith(response.headers[ToLowerCase(LocationName)], PathNew)

\* C7: a selected rewrite rule makes exactly one outbound call, to the rule's
\* destination, with the request's method and body and the request's headers
\* overridden by the configured request headers; the returned response has the
\* upstream status and body and the upstream headers overridden by the
\* configured response headers; unnamed headers are carried over both ways
C7_RewriteProxy ==
  (Invoked /\ rewrite > 0) =>
    LET r == edgeFile.rewrites[rewrite]
    IN /\ hpc \in {"awaitRewrite", "done"}
       /\ outcome \in {"none", "rewrite", "FetchError"}
       /\ Len(calls) = 1
       /\ calls[1].url = ExpectedDestination(r.to)
       /\ calls[1].method = request.method
       /\ calls[1].body = request.body
       /\ MergedInto(calls[1].headers, request.headers, r.requestHeaders)
       /\ (hpc = "done" /\ fetched # NetworkError) =>
            /\ outcome = "rewrite"
            /\ response.status = fetched.status
            /\ response.body = fetched.body
            /\ MergedInto(response.headers, fetched.headers, r.responseHeaders)

\* a rewrite went through with a configured request header replacing the
\* request's own, a configured response header replacing the upstream's, and
\* an unnamed header carried over in each direction
C7_Witness ==
  /\ outcome = "rewrite"
  /\ rewrite > 0
  /\ \E n \in ConfiguredNames(edgeFile.rewrites[rewrite].requestHeaders) :
       /\ n \in DOMAIN request.headers
       /\ request.headers[n] # calls[1].headers[n]
  /\ \E n \in ConfiguredNames(edgeFile.rewrites[rewrite].responseHeaders) :
       /\ n \in DOMAIN fetched.headers
       /\ fetched.headers[n] # response.headers[n]
  /\ \E n \in DOMAIN request.headers :
       n \notin ConfiguredNames(edgeFile.rewrites[rewrite].requestHeaders)
  /\ \E n \in DOMAIN fetched.headers :
       n \notin ConfiguredNames(edgeFile.rewrites[rewrite].responseHeaders)

IsInternalName(name) ==
  \/ StartsWith(ToLowerCase(name), RscMarker)
  \/ StartsWith(ToLowerCase(name), NextRouterMarker)

BodySent(b) == IF b \in {Undefined, Null} THEN Null ELSE b

\* C8: a request whose path matches no redirect rule and no rewrite rule is
\* forwarded to its own URL with the same method, body and header values,
\* minus exactly the headers whose name starts (case-insensitively) with rsc
\* or next-router; nothing else is removed and nothing is added
C8_PassThrough ==
  (/\ Invoked
   /\ MatchingRules(edgeFile.redirects, request.path) = {}
   /\ MatchingRules(edgeFile.rewrites, request.path) = {}) =>
    /\ Len(calls) = 1
    /\ calls[1].url = request.url
    /\ calls[1].method = request.method
    /\ BodySent(calls[1].body) = BodySent(request.body)
    /\ DOMAIN calls[1].headers =
         {ToLowerCase(request.wire[i][1]) : i \in
            {j \in 1..Len(request.wire) : ~IsInternalName(request.wire[j][1])}}
    /\ \A n \in DOMAIN calls[1].headers : calls[1].headers[n] = request.headers[n]
    /\ (hpc = "done" /\ fetched # NetworkError) =>
         (outcome = "passthrough" /\ response = fetched)

NonEmptyString(v) == v # Undefined /\ v # <<>>

\* C9: every rule fetchRules returns has a non-empty from and a non-empty to;
\* an entry lacking either is left out of the list
C9_RulesComplete ==
  pc \in {"fetched", "writing", "written"} =>
    /\ \A i \in 1..Len(redirectRules) :
         NonEmptyString(redirectRules[i].from) /\ NonEmptyString(redirectRules[i].to)
    /\ \A i \in 1..Len(rewriteRules) :
         NonEmptyString(rewriteRules[i].from) /\ NonEmptyString(rewriteRules[i].to)

\* the pairs of a list that carry both a key and a value
CompletePairs(l) ==
  {i \in 1..Len(l) : NonEmptyString(Prop(l[i], "key")) /\ NonEmptyString(Prop(l[i], "value"))}

\* a flat map as a set of key-to-value associations
Associations(obj) == {obj[i] : i \in 1..Len(obj)}

\* C10: header normalization reduces a {key, value} pair list and a flat map
\* alike to a flat map with the same associations; of several pairs with one
\* key, the later pair's value is kept
C10_HeaderRepresentations ==
  hDone =>
    /\ "header_pairs" \in DOMAIN hHeaders =>
         LET l == hHeaders.header_pairs
         IN Associations(hResult) =
              {<<l[i].key, l[i].value>> : i \in
                 {j \in CompletePairs(l) :
                    \A k \in CompletePairs(l) : l[k].key = l[j].key => k <= j}}
    /\ "flat" \in DOMAIN hHeaders =>
         Associations(hResult) = Associations(hHeaders.flat)

\* C11: header normalization is idempotent: normalizing the flat map that a
\* normalization produced returns that same map
C11_NormalizationIdempotent ==
  hAgainDone => hAgain = hResult

\* fetchRules has returned its two rule lists
Fetched == pc \in {"fetched", "writing", "written"}

\* C12: a fetch that fails for one content type fails neither fetchRules nor
\* the other fetch: the failed content type contributes the empty list, the
\* other one its rules, both lists are empty when both fail, and fetchRules
\* always completes with a result
C12_PartialFailureTolerated ==
  /\ pc # "failed"
  /\ (pc = "fetching" /\ redirectFetch.state \in {"fulfilled", "rejected"}
                      /\ rewriteFetch.state \in {"fulfilled", "rejected"}) =>
       ENABLED fetchRules
  /\ Fetched =>
       /\ redirectFetch.state = "rejected" => redirectRules = <<>>
       /\ rewriteFetch.state = "rejected" => rewriteRules = <<>>
       /\ redirectFetch.state = "fulfilled" =>
            redirectRules = RedirectRulesOf(redirectFetch.value)
       /\ rewriteFetch.state = "fulfilled" =>
            rewriteRules = RewriteRulesOf(rewriteFetch.value)

C12_Witness ==
  /\ pc = "fetched"
  /\ redirectFetch.state = "rejected"
  /\ rewriteFetch.state = "fulfilled"
  /\ redirectRules = <<>>
  /\ rewriteRules # <<>>

\* the entries a settled fetch contributes to fetchRules
Contribution(p) == IF p.state = "fulfilled" THEN p.value ELSE <<>>

\* C13: fetchRules starts both fetches before it waits for either, computes its
\* rule lists only after both have settled, and its result depends on what the
\* two fetches delivered and not on the order in which they completed; neither
\* fetch changes what the other delivered
C13_ConcurrentFetches ==
  /\ [](/\ (redirectFetch.state = "idle") <=> (rewriteFetch.state = "idle")
        /\ pc \in {"start", "fetching"} => (redirectRules = <<>> /\ rewriteRules = <<>>)
        /\ Fetched =>
             /\ redirectFetch.state \in {"fulfilled", "rejected"}
             /\ rewriteFetch.state \in {"fulfilled", "rejected"}
             /\ redirectRules = RedirectRulesOf(Contribution(redirectFetch))
             /\ rewriteRules = RewriteRulesOf(Contribution(rewriteFetch)))
  /\ [][/\ redirectFetch' # redirectFetch =>
             (redirectFetch.state \in {"idle", "pending"}
               /\ (redirectFetch.state = "pending" => rewriteFetch' = rewriteFetch))
        /\ rewriteFetch' # rewriteFetch =>
             (rewriteFetch.state \in {"idle", "pending"}
               /\ (rewriteFetch.state = "pending" => redirectFetch' = redirectFetch))]_vars

C13_Witness ==
  /\ pc = "fetched"
  /\ redirectFetch.state = "fulfilled"
  /\ rewriteFetch.state = "fulfilled"
  /\ redirectRules # <<>>
  /\ rewriteRules # <<>>

\* the names a version of fetchEntries accepts for each credential
AcceptedApiKeyNames(version) ==
  IF version = "B" THEN {"CONTENTSTACK_API_KEY"}
  ELSE {"CONTENTSTACK_API_KEY", "NEXT_PUBLIC_CONTENTSTACK_API_KEY"}

AcceptedTokenNames(version) ==
  IF version = "A"
    THEN {"CONTENTSTACK_DELIVERY_TOKEN", "NEXT_PUBLIC_CONTENTSTACK_DELIVERY_TOKEN",
          "CONTENTSTACK_MANAGEMENT_TOKEN", "NEXT_PUBLIC_CONTENTSTACK_MANAGEMENT_TOKEN"}
  ELSE IF version = "B"
    THEN {"CONTENTSTACK_DELIVERY_TOKEN", "CONTENTSTACK_MANAGEMENT_TOKEN"}
  ELSE {"CONTENTSTACK_DELIVERY_TOKEN", "NEXT_PUBLIC_CONTENTSTACK_DELIVERY_TOKEN"}

CredentialMissing(version) ==
  \/ AcceptedApiKeyNames(version) \cap fEnv = {}
  \/ AcceptedTokenNames(version) \cap fEnv = {}

\* C14: when the API key or the delivery token is set in none of the
\* environment variables accepted for it, fetchEntries fails with a
\* configuration error before any query is issued, and the rule fetch for
\* that content type yields no entries
C14_MissingCredentials ==
  \A version \in Versions :
    (fRuns[version].done /\ CredentialMissing(version)) =>
      /\ fRuns[version].outcome = "ConfigError"
      /\ ~fRuns[version].queried
      /\ fRuns[version].entries \in {JArray(<<>>), JUndefined}
      /\ version \in {"A", "B"} => fRuns[version].entries = JArray(<<>>)

C14_Witness ==
  /\ "CONTENTSTACK_API_KEY" \in fEnv
  /\ fEnv \cap AcceptedTokenNames("B") = {}
  /\ fReply = JArray(<<JArray(<<Entry1, Entry2>>)>>)
  /\ fRuns["B"].done
  /\ fRuns["B"].outcome = "ConfigError"
  /\ fRuns["B"].entries = JArray(<<>>)

\* a list of entries
IsEntryList(v) ==
  IsArray(v) /\ \A i \in 1..Len(v.elems) : v.elems[i].tag = "object"

\* the list of raw entries a reply envelope carries
EnvelopeEntries(reply) ==
  IF IsEntryList(reply) THEN reply
  ELSE IF reply.tag = "object" /\ IsEntryList(Member(reply, "items"))
    THEN Member(reply, "items")
  ELSE IF IsArray(reply) /\ IsEntryList(ElementZero(reply)) THEN ElementZero(reply)
  ELSE JArray(<<>>)

\* C20: fetchEntries returns the list of raw entries of every reply envelope:
\* a bare array itself, the items of an object with items, the inner list of
\* a nested array, and the empty list for any other shape; the value handed
\* to the normalizer is always a list of entries
C20_EnvelopeUnwrapped ==
  \A version \in Versions :
    (fRuns[version].done /\ fRuns[version].queried /\ fReply # QueryFails) =>
      /\ fRuns[version].outcome = "returned"
      /\ fRuns[version].value = EnvelopeEntries(fReply)
      /\ IsEntryList(fRuns[version].entries)

\* this build received the rule lists that the build before it embedded
SameListsAsBefore ==
  /\ pc = "written"
  /\ previous.state = "complete"
  /\ previous.redirects = StringifyRules(redirectRules)
  /\ previous.rewrites = StringifyRules(rewriteRules)

\* C15 as stated: two runs of updateEdgeFile that receive the same rule lists
\* write the same file content
C15_SameContent ==
  SameListsAsBefore => edgeFile = previous

\* C15 amended: two runs of updateEdgeFile that receive the same rule lists
\* write files that differ at most in the generation timestamp of the header
\* comment: the rule counts and the embedded tables are the same
C15_SameContentButTimestamp ==
  SameListsAsBefore =>
    [edgeFile EXCEPT !.timestamp = 0] = [previous EXCEPT !.timestamp = 0]

C15_Witness ==
  /\ SameListsAsBefore
  /\ previous.redirects # <<>>
  /\ edgeFile.timestamp # previous.timestamp

\* C16: updateEdgeFile creates the target directory when it is absent and
\* replaces the previous file atomically: at every point of a build, an
\* interruption during the write included, the target path holds the complete
\* previous file or the complete new one, and after a completed build it holds
\* the new content
C16_AtomicReplace ==
  /\ pc \in {"writing", "written"} => dirExists
  /\ edgeFile \in {previous, EdgeCode(redirectRules, rewriteRules, now)}
  /\ pc = "written" => edgeFile = EdgeCode(redirectRules, rewriteRules, now)

\* reading any property of the embedded rule gives what the returned rule holds
SameRule(embedded, rule) ==
  /\ DOMAIN embedded \subseteq DOMAIN rule
  /\ \A f \in DOMAIN rule :
       IF f \in {"from", "to"} /\ rule[f] = Undefined
         THEN f \notin DOMAIN embedded
         ELSE f \in DOMAIN embedded /\ embedded[f] = rule[f]

SameRules(table, rules) ==
  /\ Len(table) = Len(rules)
  /\ \A i \in 1..Len(rules) : SameRule(table[i], rules[i])

\* C17: the tables the handler evaluates are, element for element and in the
\* same order, the lists fetchRules returned, which are in the order the CMS
\* returned the entries; the rule counts of the header comment equal the
\* lengths of the embedded tables
C17_TablesAreRuleLists ==
  pc = "written" =>
    /\ SameRules(edgeFile.redirects, redirectRules)
    /\ SameRules(edgeFile.rewrites, rewriteRules)
    /\ Len(redirectRules) = Len(Contribution(redirectFetch))
    /\ Len(rewriteRules) = Len(Contribution(rewriteFetch))
    /\ \A i \in 1..Len(redirectRules) :
         /\ redirectRules[i].from = Prop(redirectFetch.value[i], "source")
         /\ redirectRules[i].to = Prop(redirectFetch.value[i], "destination")
    /\ \A i \in 1..Len(rewriteRules) :
         rewriteRules[i].from = Prop(rewriteFetch.value[i], "source")
    /\ edgeFile.redirectCount = Len(edgeFile.redirects)
    /\ edgeFile.rewriteCount = Len(edgeFile.rewrites)

\* two different redirects and two different rewrites were embedded
C17_Witness ==
  /\ pc = "written"
  /\ Len(edgeFile.redirects) = 2
  /\ edgeFile.redirects[1] # edgeFile.redirects[2]
  /\ Len(edgeFile.rewrites) = 2
  /\ edgeFile.rewrites[1] # edgeFile.rewrites[2]

\* C18: when the outbound call to the destination of the selected rewrite rule
\* fails, the invocation fails with that upstream error: the call was made
\* once, to that destination, and no response is returned in its place
C18_UpstreamFailurePropagates ==
  (rewrite > 0 /\ hpc = "done" /\ fetched = NetworkError) =>
    /\ outcome = "FetchError"
    /\ response = NoResponse
    /\ Len(calls) = 1
    /\ calls[1].url = ExpectedDestination(edgeFile.rewrites[rewrite].to)

C18_Witness ==
  /\ rewrite > 0
  /\ hpc = "done"
  /\ fetched = NetworkError
  /\ outcome = "FetchError"
  /\ Len(calls) = 1

\* the field holds a value
Present(entry, name) == Prop(entry, name) \notin {Undefined, <<>>}

\* the aliases of the list that hold a value, by position
PresentAliases(entry, names) == {i \in 1..Len(names) : Present(entry, names[i])}

\* the field is built from the first alias of the list that holds a value
TakesFirstPresent(value, entry, names) ==
  PresentAliases(entry, names) # {} =>
    value = entry[names[Min(PresentAliases(entry, names))]]

\* C19: for each canonical rule field the normalizer takes the value of the
\* first alias, in the fixed order, that the entry carries, and ignores the
\* later ones (redirect origin: url_from, source, from, old_url; redirect
\* target: url_to, destination, to, new_url; rewrite origin: source_path,
\* source, from, old_url); an entry with one alias yields that alias's value
C19_FirstAliasWins ==
  /\ \A n \in {"redirect", "redirectAliases"} :
       aRules[n].done =>
         /\ TakesFirstPresent(aRules[n].rule.from, aEntry,
                              <<"url_from", "source", "from", "old_url">>)
         /\ TakesFirstPresent(aRules[n].rule.to, aEntry,
                              <<"url_to", "destination", "to", "new_url">>)
  /\ \A n \in {"rewrite", "rewriteAliases"} :
       aRules[n].done =>
         TakesFirstPresent(aRules[n].rule.from, aEntry,
                           <<"source_path", "source", "from", "old_url">>)

\* both content-type fetches of this build failed
BothFetchesFailed ==
  redirectFetch.state = "rejected" /\ rewriteFetch.state = "rejected"

\* C21: when both content-type fetches fail, updateEdgeFile still runs to
\* completion and overwrites the generated file with two empty rule tables,
\* whatever rules the earlier build had embedded, and the handler generated
\* from it passes every request through
C21_EmptyTablesOverwrite ==
  BothFetchesFailed =>
    /\ pc # "failed"
    /\ pc = "fetching" => ENABLED fetchRules
    /\ pc = "fetched" => ENABLED updateEdgeFile
    /\ pc = "writing" => ENABLED writeFileSync
    /\ pc = "written" =>
         /\ edgeFile.state = "complete"
         /\ edgeFile.redirects = <<>> /\ edgeFile.rewrites = <<>>
         /\ edgeFile.redirectCount = 0 /\ edgeFile.rewriteCount = 0
         /\ Invoked =>
              /\ redirect = 0 /\ rewrite = 0
              /\ hpc \in {"awaitOrigin", "done"}
              /\ calls = <<PassThroughCall(request)>>
              /\ (hpc = "done" /\ fetched # NetworkError) =>
                   (outcome = "passthrough" /\ response = fetched)

\* the earlier file redirected /old; after the build with two failed fetches a
\* request for /old was passed through
C21_Witness ==
  /\ BothFetchesFailed
  /\ pc = "written"
  /\ previous.redirects # <<>>
  /\ edgeFile.redirects = <<>>
  /\ request.path = PathOld
  /\ FindRedirect(previous.redirects, request.path, 1) > 0
  /\ outcome = "passthrough"

\* updateEdgeFile has failed: its promise is rejected, or the script that was
\* run directly has exited with code 1
BuildFailed == pc \in {"failed", "exit1"}

\* C22: if updateEdgeFile fails before its write step, because fetchRules
\* rejects or because fetchRules returns no rewrite rule list, the content of
\* the earlier file at the target path is left unchanged and the failure is
\* reported to the caller, with exit code 1 when the script is run directly
C22_FailureLeavesFile ==
  /\ BuildFailed => edgeFile = previous
  /\ ~ReturnsRewriteRules(rulesVersion) => pc \notin {"writing", "written"}
  /\ (rulesVersion = "C" /\ redirectFetch.state = "rejected") =>
       pc \in {"fetching", "failed", "exit1", "interrupted"}
  /\ (pc = "fetched" /\ ~ReturnsRewriteRules(rulesVersion)) => ENABLED updateEdgeFile
  /\ pc = "failed" => ENABLED exitOnError

\* fetchRules returned redirect rules and no rewrite list, the script exited
\* with code 1, and the file of the earlier build is still there
C22_Witness ==
  /\ pc = "exit1"
  /\ rulesVersion = "A"
  /\ redirectRules # <<>>
  /\ previous.state = "complete"
  /\ previous.redirects # <<>>
  /\ edgeFile = previous

====
